---- MODULE Spec2Model ----
(***************************************************************************)
(* Model of the authentication API: the credential store (users and        *)
(* refresh-token records), the token codec (JwtUtils), the session         *)
(* handlers (AuthController) and the authentication gate                   *)
(* (authenticateToken).                                                    *)
(*                                                                         *)
(* Every request is served in one of Procs, the in-flight request slots.   *)
(* A handler is cut into steps at the points where it awaits the store:    *)
(* one step is one store operation together with the synchronous code      *)
(* around it, so that two requests interleave exactly where the event      *)
(* loop lets them.  The server keeps no response: what a handler answers   *)
(* is an operator of the store, the clock and the request (the ...Response *)
(* operators), and the actions apply the handler's effects on the store.   *)
(***************************************************************************)
EXTENDS Integers, FiniteSets, Sequences, TLC

\* ------------------------------------------------------------- bounds
NumProcs == 2          \* request slots in flight together
MaxTime == 2           \* the clock runs over 0..MaxTime
MaxUsers == 2          \* user rows ever created
MaxTokens == 2         \* refresh tokens ever minted

\* ------------------------------------------------------------- configuration
\* The token lifetimes, in clock ticks.  JwtUtils reads JWT_REFRESH_EXPIRES_IN
\* once, when the module is loaded; the controller reads it again at every
\* request (server.ts loads the routes before dotenv.config() runs, so the
\* two reads can differ): the lifetime embedded in the token and the lifetime
\* of the stored record are two settings.  A token lives through the ticks
\* iat .. iat + TTL - 1 (jwt.verify rejects at clock >= exp); a record lives
\* through the ticks created .. created + TTL (the handler rejects at
\* expiresAt < now).
AccessTTL == 1         \* JwtUtils.accessExpiresIn
RefreshTTL == 2        \* JwtUtils.refreshExpiresIn
StoredRefreshTTL == 0  \* process.env.JWT_REFRESH_EXPIRES_IN in register and login

Procs == 1..NumProcs
Emails == {"a@x", "b@x"}
Passwords == {"pw1", "pw2"}
RegisterPasswords == {"pw1"}   \* the passwords accounts are created with
Empty == ""            \* a missing (falsy) body field

\* ------------------------------------------------------------- tokens
\* A signed token is its payload plus the secret that signed it (kind).
\* jwt.sign is deterministic: equal payload, iat and secret give equal strings.
NoToken == [kind |-> "none", userId |-> 0, email |-> "", tokenId |-> 0, iat |-> 0, exp |-> 0]
EmptyToken == [kind |-> "empty", userId |-> 0, email |-> "", tokenId |-> 0, iat |-> 0, exp |-> 0]
Forged == [kind |-> "forged", userId |-> 1, email |-> "a@x", tokenId |-> 0, iat |-> 0, exp |-> MaxTime + 1]

NoUser == [userId |-> 0, email |-> ""]

\* JS truthiness of a token string: undefined, null and "" are falsy.
Truthy(t) == t.kind \notin {"none", "empty"}

generateAccessToken(userId, email, t) ==
    [kind |-> "access", userId |-> userId, email |-> email, tokenId |-> 0,
     iat |-> t, exp |-> t + AccessTTL]

generateRefreshToken(userId, tokenId, t) ==
    [kind |-> "refresh", userId |-> userId, email |-> "", tokenId |-> tokenId,
     iat |-> t, exp |-> t + RefreshTTL]

\* Mutant: the access token is verified under the refresh secret.
verifyAccessToken_RefreshSecret(tok, t) == tok.kind = "refresh" /\ t < tok.exp

\* Mutant: jwt.verify with ignoreExpiration.
verifyAccessToken_IgnoreExpiration(tok, t) == tok.kind = "access"

\* jwt.verify: the signature under the given secret, then exp (rejects when clock >= exp).
verifyAccessToken(tok, t) == tok.kind = "access" /\ t < tok.exp

\* Mutant: one secret for both kinds, so that either signature passes.
verifyRefreshToken_SameSecret(tok, t) == tok.kind \in {"access", "refresh"} /\ t < tok.exp

verifyRefreshToken(tok, t) == tok.kind = "refresh" /\ t < tok.exp

\* An Authorization header: absent, or a scheme prefix followed by the rest.
NoHeader == [scheme |-> "", tok |-> NoToken]
BasicHeader == [scheme |-> "Basic ", tok |-> Forged]
Bearer(t) == [scheme |-> "Bearer ", tok |-> t]

extractTokenFromHeader(h) ==
    IF h = NoHeader \/ h.scheme # "Bearer " THEN NoToken ELSE h.tok

\* The same function on the characters of the header.  A string that may be
\* undefined or null is present or not, with its characters.
Absent == [present |-> FALSE, chars |-> <<>>]
Text(cs) == [present |-> TRUE, chars |-> cs]
BearerPrefix == <<"B", "e", "a", "r", "e", "r", " ">>
startsWith(cs, prefix) ==
    Len(cs) >= Len(prefix) /\ SubSeq(cs, 1, Len(prefix)) = prefix
substring(cs, start) == SubSeq(cs, start + 1, Len(cs))

\* Mutant: the rest is taken from the sixth character on.
extractTokenFromHeaderText_FromSix(authHeader) ==
    IF ~authHeader.present \/ authHeader.chars = <<>>
          \/ ~startsWith(authHeader.chars, BearerPrefix)
    THEN Absent
    ELSE Text(substring(authHeader.chars, 6))

extractTokenFromHeaderText(authHeader) ==
    IF ~authHeader.present \/ authHeader.chars = <<>>
          \/ ~startsWith(authHeader.chars, BearerPrefix)
    THEN Absent
    ELSE Text(substring(authHeader.chars, 7))

\* bcrypt: a one-way hash, compared by re-hashing.
Hash(pw) == <<"bcrypt12", pw>>
\* Mutant: the supplied password is compared with the stored value as it is.
Compare_Plain(pw, h) == h = pw

Compare(pw, h) == h = Hash(pw)

\* ------------------------------------------------------------- state
VARIABLES
    now,            \* the clock (Date.now())
    users,          \* table User: rows [id, email, password, isActive]
    refreshTokens,  \* table RefreshToken: rows [token, userId, expiresAt]
    nextId,         \* the next user id (cuid())
    nextTok,        \* the next tokenId discriminator (Date.now() + Math.random())
    rq,             \* per slot: the request in flight and its handler's locals
    issued,         \* history: the tokens handed to clients so far
    revokedAll,     \* history: refresh tokens issued to a user before a logout-all of that user
    revokedOne,     \* history: refresh tokens carried by a successful logout
    refreshed       \* history: refresh tokens that a refresh has succeeded with

vars == <<now, users, refreshTokens, nextId, nextTok, rq, issued, revokedAll, revokedOne,
          refreshed>>

Blank ==
    [op |-> "none", pc |-> "idle", email |-> Empty, password |-> Empty, uid |-> 0,
     at |-> NoToken, rt |-> NoToken, exp |-> 0]

Free(p) == rq[p].pc = "idle"

\* A response: the status and the body (error, message, accessToken as at), the
\* cookies it sets (at, rt) or clears (cleared) and, behind the gate, the
\* token the gate examined (tok), the identity it attached to the request
\* (user) and whether the handler ran.  Status 0: no response yet, the
\* handler goes on to its next step.
Pending ==
    [status |-> 0, error |-> "", message |-> "", at |-> NoToken, rt |-> NoToken,
     tok |-> NoToken, user |-> NoUser, handler |-> FALSE, cleared |-> FALSE]

Answer(status, error, message) ==
    [Pending EXCEPT !.status = status, !.error = error, !.message = message]

\* The message of register and login for a request without a JSON body.
BodyMissing ==
    "Request body is missing or invalid. Please send JSON data with Content-Type: application/json"

\* The catch block of every handler.
InternalError == Answer(500, "INTERNAL_ERROR", "Internal server error")

\* Requests that are past their last check and will mint a refresh token.
Minting == Cardinality({q \in Procs : rq[q].pc = "create"})

\* What a client may present: nothing it could not have been handed or made up.
Presentable == issued \cup {Forged}
Cookies == Presentable \cup {NoToken}
Headers == {NoHeader, BasicHeader, Bearer(EmptyToken)} \cup {Bearer(t) : t \in Presentable}
\* The requests the actions are taken with: a token in the header or in the
\* cookie.  (The Response operators are defined, and checked, on every pair
\* of Headers and Cookies; what a request does to the store depends only on
\* the token it is examined with.)
Credentials ==
    {<<h, NoToken>> : h \in Headers} \cup {<<NoHeader, c>> : c \in Cookies}
NoBody == [present |-> FALSE, email |-> Empty, password |-> Empty]
BodiesOf(passwords) ==
    {NoBody} \cup
    {[present |-> TRUE, email |-> e, password |-> pw] :
        e \in Emails \cup {Empty}, pw \in passwords \cup {Empty}}

\* ------------------------------------------------------------- store
FindUserByEmail(e) == {u \in users : u.email = e}
FindUserById(id) == {u \in users : u.id = id}
FindRefreshToken(t) == {r \in refreshTokens : r.token = t}

\* Mutant: the User table without the unique index on email.
UserCreateOk_NoUnique(e) == TRUE

\* prisma.user.create under `email @unique`: a second row for an email is refused.
UserCreateOk(e) == FindUserByEmail(e) = {}

\* prisma.refreshToken.create under `token @unique` and the relation to User.
TokenCreateOk(t, uid) == FindRefreshToken(t) = {} /\ FindUserById(uid) # {}

TypeOK ==
    /\ now \in 0..MaxTime
    /\ nextId \in 1..(MaxUsers + NumProcs + 1)
    /\ \A u \in users : u.email \in Emails /\ u.isActive \in BOOLEAN
    /\ \A r \in refreshTokens : r.token.kind = "refresh"
    /\ \A p \in Procs : rq[p].pc \in {"idle", "create", "store", "lookup"}

Init ==
    /\ now = 0
    /\ users = {}
    /\ refreshTokens = {}
    /\ nextId = 1
    /\ nextTok = 1
    /\ rq = [p \in Procs |-> Blank]
    /\ issued = {}
    /\ revokedAll = {}
    /\ revokedOne = {}
    /\ refreshed = {}

\* ------------------------------------------------------------- register
\* Mutant: register without the existence lookup.
RegisterResponse_NoLookup(body) ==
    IF ~body.present
    THEN Answer(400, "INVALID_REQUEST_BODY", BodyMissing)
    ELSE IF body.email = Empty \/ body.password = Empty
    THEN Answer(400, "VALIDATION_ERROR", "Email and password are required")
    ELSE Pending

\* AuthController.register up to prisma.user.findUnique: the body, the
\* required fields, the existence lookup.
RegisterResponse(body) ==
    IF ~body.present
    THEN Answer(400, "INVALID_REQUEST_BODY", BodyMissing)
    ELSE IF body.email = Empty \/ body.password = Empty
    THEN Answer(400, "VALIDATION_ERROR", "Email and password are required")
    ELSE IF FindUserByEmail(body.email) # {}
    THEN Answer(409, "USER_EXISTS", "User with this email already exists")
    ELSE Pending

RegisterWith(p, body) ==
    /\ IF RegisterResponse(body) # Pending
       THEN UNCHANGED rq
       ELSE /\ nextId <= MaxUsers /\ nextTok + Minting <= MaxTokens
            /\ rq' = [rq EXCEPT ![p] =
                    [Blank EXCEPT !.op = "register", !.pc = "create",
                                  !.email = body.email, !.password = body.password]]
    /\ UNCHANGED <<now, users, refreshTokens, nextId, nextTok, issued, revokedAll, revokedOne, refreshed>>

Register(p) ==
    /\ Free(p)
    /\ \E body \in BodiesOf(RegisterPasswords) : RegisterWith(p, body)

\* prisma.user.create: a violated constraint throws into the catch block.
RegisterCreateResponse(r) ==
    IF ~UserCreateOk(r.email) THEN InternalError ELSE Pending

\* prisma.user.create and the synchronous minting that follows it.
RegisterCreate(p) ==
    /\ rq[p].op = "register" /\ rq[p].pc = "create"
    /\ IF RegisterCreateResponse(rq[p]) # Pending
       THEN /\ rq' = [rq EXCEPT ![p] = Blank]
            /\ UNCHANGED <<users, nextId, nextTok>>
       ELSE /\ users' = users \cup {[id |-> nextId, email |-> rq[p].email,
                                     password |-> Hash(rq[p].password), isActive |-> TRUE]}
            /\ nextId' = nextId + 1
            /\ nextTok' = nextTok + 1
            /\ rq' = [rq EXCEPT ![p] =
                    [@ EXCEPT !.pc = "store", !.uid = nextId, !.password = Empty,
                              !.at = generateAccessToken(nextId, rq[p].email, now),
                              !.rt = generateRefreshToken(nextId, nextTok, now),
                              !.exp = now + StoredRefreshTTL]]
    /\ UNCHANGED <<now, refreshTokens, issued, revokedAll, revokedOne, refreshed>>

\* data.user of the 201 and of the 200: the fields copied from the row.
UserView(user) == [id |-> user.id, email |-> user.email, isActive |-> user.isActive]

\* prisma.refreshToken.create, the cookies and the response of register (201)
\* or login (200).
StoreResponse(r, status, message) ==
    IF ~TokenCreateOk(r.rt, r.uid)
    THEN InternalError
    ELSE [Answer(status, "", message) EXCEPT !.at = r.at, !.rt = r.rt]

RegisterStoreResponse(r) == StoreResponse(r, 201, "User registered successfully")

\* Mutant: the record takes the expiry embedded in the token.
Store_EmbeddedExpiry(p, response) ==
    /\ IF response.status = 500
       THEN UNCHANGED <<refreshTokens, issued, revokedAll>>
       ELSE /\ refreshTokens' = refreshTokens \cup
                    {[token |-> rq[p].rt, userId |-> rq[p].uid, expiresAt |-> rq[p].rt.exp]}
            /\ issued' = issued \cup {response.at, response.rt}
            /\ revokedAll' = revokedAll \ {response.rt}
    /\ rq' = [rq EXCEPT ![p] = Blank]
    /\ UNCHANGED <<now, users, nextId, nextTok, revokedOne, refreshed>>

\* The effect of a handler's last step, the refresh-token record.
Store(p, response) ==
    /\ IF response.status = 500
       THEN UNCHANGED <<refreshTokens, issued, revokedAll>>
       ELSE /\ refreshTokens' = refreshTokens \cup
                    {[token |-> rq[p].rt, userId |-> rq[p].uid, expiresAt |-> rq[p].exp]}
            /\ issued' = issued \cup {response.at, response.rt}
            /\ revokedAll' = revokedAll \ {response.rt}
    /\ rq' = [rq EXCEPT ![p] = Blank]
    /\ UNCHANGED <<now, users, nextId, nextTok, revokedOne, refreshed>>

RegisterStore(p) ==
    /\ rq[p].op = "register" /\ rq[p].pc = "store"
    /\ Store(p, RegisterStoreResponse(rq[p]))

\* ------------------------------------------------------------- login
\* Mutant: an unknown email is answered differently from a wrong password.
LoginResponse_NamesUnknown(body) ==
    LET found == FindUserByEmail(body.email)
        user == CHOOSE u \in found : TRUE
    IN  IF ~body.present
        THEN Answer(400, "INVALID_REQUEST_BODY", BodyMissing)
        ELSE IF body.email = Empty \/ body.password = Empty
        THEN Answer(400, "VALIDATION_ERROR", "Email and password are required")
        ELSE IF found = {}
        THEN Answer(404, "USER_NOT_FOUND", "User not found")
        ELSE IF ~user.isActive
        THEN Answer(401, "ACCOUNT_DEACTIVATED", "Account is deactivated")
        ELSE IF ~Compare(body.password, user.password)
        THEN Answer(401, "INVALID_CREDENTIALS", "Invalid email or password")
        ELSE Pending

\* AuthController.login up to the minting: the body, the lookup, the active
\* flag, bcrypt.compare.
LoginResponse(body) ==
    LET found == FindUserByEmail(body.email)
        user == CHOOSE u \in found : TRUE
    IN  IF ~body.present
        THEN Answer(400, "INVALID_REQUEST_BODY", BodyMissing)
        ELSE IF body.email = Empty \/ body.password = Empty
        THEN Answer(400, "VALIDATION_ERROR", "Email and password are required")
        ELSE IF found = {}
        THEN Answer(401, "INVALID_CREDENTIALS", "Invalid email or password")
        ELSE IF ~user.isActive
        THEN Answer(401, "ACCOUNT_DEACTIVATED", "Account is deactivated")
        ELSE IF ~Compare(body.password, user.password)
        THEN Answer(401, "INVALID_CREDENTIALS", "Invalid email or password")
        ELSE Pending

LoginWith(p, body) ==
    LET user == CHOOSE u \in FindUserByEmail(body.email) : TRUE
    IN  /\ IF LoginResponse(body) # Pending
           THEN UNCHANGED <<rq, nextTok>>
           ELSE /\ nextTok + Minting <= MaxTokens
                /\ nextTok' = nextTok + 1
                /\ rq' = [rq EXCEPT ![p] =
                        [Blank EXCEPT !.op = "login", !.pc = "store", !.email = user.email,
                                      !.uid = user.id,
                                      !.at = generateAccessToken(user.id, user.email, now),
                                      !.rt = generateRefreshToken(user.id, nextTok, now),
                                      !.exp = now + StoredRefreshTTL]]
        /\ UNCHANGED <<now, users, refreshTokens, nextId, issued, revokedAll, revokedOne, refreshed>>

Login(p) ==
    /\ Free(p)
    /\ \E body \in BodiesOf(Passwords) : LoginWith(p, body)

LoginStoreResponse(r) == StoreResponse(r, 200, "Login successful")

LoginStore(p) ==
    /\ rq[p].op = "login" /\ rq[p].pc = "store"
    /\ Store(p, LoginStoreResponse(rq[p]))

\* ------------------------------------------------------------- refresh
\* Mutant: the Authorization header is read before the cookie.
RefreshResponse_HeaderFirst(cookie, hdr, t) ==
    LET refreshToken ==
            IF hdr # NoHeader /\ hdr.scheme = "Bearer " /\ Truthy(hdr.tok)
            THEN hdr.tok
            ELSE cookie
    IN  IF ~Truthy(refreshToken)
        THEN Answer(401, "REFRESH_TOKEN_REQUIRED", "Refresh token is required")
        ELSE IF ~verifyRefreshToken(refreshToken, t)
        THEN Answer(401, "INVALID_REFRESH_TOKEN", "Invalid refresh token")
        ELSE [Pending EXCEPT !.rt = refreshToken]

\* AuthController.refreshToken up to the record lookup: the token of the
\* cookie, else of the Authorization header, and its verification.  A pending
\* response carries the token on (rt).
RefreshResponse(cookie, hdr, t) ==
    LET refreshToken ==
            IF ~Truthy(cookie) /\ hdr # NoHeader /\ hdr.scheme = "Bearer "
            THEN hdr.tok
            ELSE cookie
    IN  IF ~Truthy(refreshToken)
        THEN Answer(401, "REFRESH_TOKEN_REQUIRED", "Refresh token is required")
        ELSE IF ~verifyRefreshToken(refreshToken, t)
        THEN Answer(401, "INVALID_REFRESH_TOKEN", "Invalid refresh token")
        ELSE [Pending EXCEPT !.rt = refreshToken]

RefreshWith(p, cookie, hdr) ==
    LET r == RefreshResponse(cookie, hdr, now)
    IN  /\ IF r.status # 0
           THEN UNCHANGED rq
           ELSE rq' = [rq EXCEPT ![p] =
                    [Blank EXCEPT !.op = "refresh", !.pc = "lookup", !.rt = r.rt]]
        /\ UNCHANGED <<now, users, refreshTokens, nextId, nextTok, issued, revokedAll, revokedOne, refreshed>>

Refresh(p) ==
    /\ Free(p)
    /\ \E cr \in Credentials : RefreshWith(p, cr[2], cr[1])

\* Mutant: the stored expiry of the record is not looked at.
RefreshLookupResponse_NoExpiry(refreshToken) ==
    LET found == FindRefreshToken(refreshToken)
        storedToken == CHOOSE r \in found : TRUE
        owner == CHOOSE u \in users : u.id = storedToken.userId
    IN  IF found = {}
        THEN Answer(401, "REFRESH_TOKEN_EXPIRED", "Refresh token expired or invalid")
        ELSE IF ~owner.isActive
        THEN Answer(401, "ACCOUNT_DEACTIVATED", "Account is deactivated")
        ELSE [Answer(200, "", "Token refreshed successfully")
                EXCEPT !.at = generateAccessToken(owner.id, owner.email, now)]

\* Mutant: the active flag of the owner is not looked at.
RefreshLookupResponse_NoActiveCheck(refreshToken) ==
    LET found == FindRefreshToken(refreshToken)
        storedToken == CHOOSE r \in found : TRUE
        owner == CHOOSE u \in users : u.id = storedToken.userId
    IN  IF found = {} \/ storedToken.expiresAt < now
        THEN Answer(401, "REFRESH_TOKEN_EXPIRED", "Refresh token expired or invalid")
        ELSE [Answer(200, "", "Token refreshed successfully")
                EXCEPT !.at = generateAccessToken(owner.id, owner.email, now)]

\* prisma.refreshToken.findUnique with its owner, the checks on the record and
\* the new access token.
RefreshLookupResponse(refreshToken) ==
    LET found == FindRefreshToken(refreshToken)
        storedToken == CHOOSE r \in found : TRUE
        owner == CHOOSE u \in users : u.id = storedToken.userId
    IN  IF found = {} \/ storedToken.expiresAt < now
        THEN Answer(401, "REFRESH_TOKEN_EXPIRED", "Refresh token expired or invalid")
        ELSE IF ~owner.isActive
        THEN Answer(401, "ACCOUNT_DEACTIVATED", "Account is deactivated")
        ELSE [Answer(200, "", "Token refreshed successfully")
                EXCEPT !.at = generateAccessToken(owner.id, owner.email, now)]

\* Mutant: a successful refresh consumes the record of its token.
RefreshLookup_Rotates(p) ==
    /\ rq[p].op = "refresh" /\ rq[p].pc = "lookup"
    /\ LET r == RefreshLookupResponse(rq[p].rt)
       IN  IF r.status = 200
           THEN /\ issued' = issued \cup {r.at}
                /\ refreshed' = refreshed \cup {rq[p].rt}
                /\ refreshTokens' = refreshTokens \ FindRefreshToken(rq[p].rt)
           ELSE UNCHANGED <<issued, refreshed, refreshTokens>>
    /\ rq' = [rq EXCEPT ![p] = Blank]
    /\ UNCHANGED <<now, users, nextId, nextTok, revokedAll, revokedOne>>

RefreshLookup(p) ==
    /\ rq[p].op = "refresh" /\ rq[p].pc = "lookup"
    /\ LET r == RefreshLookupResponse(rq[p].rt)
       IN  IF r.status = 200
           THEN /\ issued' = issued \cup {r.at}
                /\ refreshed' = refreshed \cup {rq[p].rt}
           ELSE UNCHANGED <<issued, refreshed>>
    /\ rq' = [rq EXCEPT ![p] = Blank]
    /\ UNCHANGED <<now, users, refreshTokens, nextId, nextTok, revokedAll, revokedOne>>

\* ------------------------------------------------------------- the gate
\* Mutant: the gate takes the token without verifying it.
authenticateToken_NoVerify(hdr, cookie, t) ==
    LET fromHeader == extractTokenFromHeader(hdr)
        token == IF ~Truthy(fromHeader) /\ Truthy(cookie) THEN cookie ELSE fromHeader
    IN  IF ~Truthy(token)
        THEN [Answer(401, "UNAUTHORIZED", "Access token is required") EXCEPT !.tok = token]
        ELSE [Pending EXCEPT !.tok = token, !.handler = TRUE,
                             !.user = [userId |-> token.userId, email |-> token.email]]

\* Mutant: a header token that fails verification is retried with the cookie.
authenticateToken_Retries(hdr, cookie, t) ==
    LET fromHeader == extractTokenFromHeader(hdr)
        first == IF ~Truthy(fromHeader) /\ Truthy(cookie) THEN cookie ELSE fromHeader
        token == IF Truthy(first) /\ ~verifyAccessToken(first, t) /\ Truthy(cookie)
                 THEN cookie ELSE first
    IN  IF ~Truthy(token)
        THEN [Answer(401, "UNAUTHORIZED", "Access token is required") EXCEPT !.tok = token]
        ELSE IF ~verifyAccessToken(token, t)
        THEN [Answer(401, "UNAUTHORIZED", "Invalid or expired access token")
                EXCEPT !.tok = token]
        ELSE [Pending EXCEPT !.tok = token, !.handler = TRUE,
                             !.user = [userId |-> token.userId, email |-> token.email]]

\* Mutant: the gate also asks the store for a session of the token's user.
authenticateToken_ChecksSession(hdr, cookie, t) ==
    LET fromHeader == extractTokenFromHeader(hdr)
        token == IF ~Truthy(fromHeader) /\ Truthy(cookie) THEN cookie ELSE fromHeader
    IN  IF ~Truthy(token)
        THEN [Answer(401, "UNAUTHORIZED", "Access token is required") EXCEPT !.tok = token]
        ELSE IF ~verifyAccessToken(token, t)
                \/ ~\E x \in refreshTokens : x.userId = token.userId
        THEN [Answer(401, "UNAUTHORIZED", "Invalid or expired access token")
                EXCEPT !.tok = token]
        ELSE [Pending EXCEPT !.tok = token, !.handler = TRUE,
                             !.user = [userId |-> token.userId, email |-> token.email]]

\* authenticateToken: the token of the header, else of the cookie; its
\* verification; the identity attached to the request.  handler is whether
\* next() is called, that is whether the handler behind the gate runs.
authenticateToken(hdr, cookie, t) ==
    LET fromHeader == extractTokenFromHeader(hdr)
        token == IF ~Truthy(fromHeader) /\ Truthy(cookie) THEN cookie ELSE fromHeader
    IN  IF ~Truthy(token)
        THEN [Answer(401, "UNAUTHORIZED", "Access token is required") EXCEPT !.tok = token]
        ELSE IF ~verifyAccessToken(token, t)
        THEN [Answer(401, "UNAUTHORIZED", "Invalid or expired access token")
                EXCEPT !.tok = token]
        ELSE [Pending EXCEPT !.tok = token, !.handler = TRUE,
                             !.user = [userId |-> token.userId, email |-> token.email]]

\* Mutant: the optional gate halts the request as the required gate does.
optionalAuth_Halts(hdr, cookie, t) == authenticateToken(hdr, cookie, t)

\* optionalAuth: the same token, verified when there is one; next() is called
\* in every case, with the identity attached when the verification passed.
\* No response is written (status 0).
optionalAuth(hdr, cookie, t) ==
    LET fromHeader == extractTokenFromHeader(hdr)
        token == IF ~Truthy(fromHeader) /\ Truthy(cookie) THEN cookie ELSE fromHeader
    IN  IF Truthy(token) /\ verifyAccessToken(token, t)
        THEN [Pending EXCEPT !.tok = token, !.handler = TRUE,
                             !.user = [userId |-> token.userId, email |-> token.email]]
        ELSE [Pending EXCEPT !.tok = token, !.handler = TRUE]

\* The answer of a handler behind the gate, on the request as the gate left it.
Behind(g, status, error, message) ==
    [g EXCEPT !.status = status, !.error = error, !.message = message]

\* ------------------------------------------------------------- logout
\* router.post("/logout", authenticateToken, AuthController.logout)
LogoutResponse(hdr, cookie) ==
    LET g == authenticateToken(hdr, cookie, now)
    IN  IF ~g.handler
        THEN g
        ELSE [Behind(g, 200, "", "Logout successful") EXCEPT !.cleared = TRUE]

\* Mutant: the record is deleted only when it belongs to the caller.
LogoutWith_OwnOnly(p, hdr, cookie, refreshToken) ==
    LET r == LogoutResponse(hdr, cookie)
    IN  /\ IF ~r.handler
           THEN UNCHANGED <<refreshTokens, revokedOne>>
           ELSE /\ refreshTokens' =
                        IF Truthy(refreshToken)
                        THEN refreshTokens \
                             {x \in FindRefreshToken(refreshToken) : x.userId = r.user.userId}
                        ELSE refreshTokens
                /\ revokedOne' =
                        IF refreshToken.kind = "refresh"
                        THEN revokedOne \cup {refreshToken}
                        ELSE revokedOne
        /\ UNCHANGED <<now, users, nextId, nextTok, rq, issued, revokedAll, refreshed>>

\* Mutant: every record of the owner of the token is deleted.
LogoutWith_AllOfOwner(p, hdr, cookie, refreshToken) ==
    LET r == LogoutResponse(hdr, cookie)
        owners == {x.userId : x \in FindRefreshToken(refreshToken)}
    IN  /\ IF ~r.handler
           THEN UNCHANGED <<refreshTokens, revokedOne>>
           ELSE /\ refreshTokens' =
                        IF Truthy(refreshToken)
                        THEN {x \in refreshTokens : x.userId \notin owners}
                        ELSE refreshTokens
                /\ revokedOne' =
                        IF refreshToken.kind = "refresh"
                        THEN revokedOne \cup {refreshToken}
                        ELSE revokedOne
        /\ UNCHANGED <<now, users, nextId, nextTok, rq, issued, revokedAll, refreshed>>

LogoutWith(p, hdr, cookie, refreshToken) ==
    LET r == LogoutResponse(hdr, cookie)
    IN  /\ IF ~r.handler
           THEN UNCHANGED <<refreshTokens, revokedOne>>
           ELSE /\ refreshTokens' =
                        IF Truthy(refreshToken)
                        THEN refreshTokens \ FindRefreshToken(refreshToken)
                        ELSE refreshTokens
                /\ revokedOne' =
                        IF refreshToken.kind = "refresh"
                        THEN revokedOne \cup {refreshToken}
                        ELSE revokedOne
        /\ UNCHANGED <<now, users, nextId, nextTok, rq, issued, revokedAll, refreshed>>

Logout(p) ==
    /\ Free(p)
    /\ \E cr \in Credentials, refreshToken \in Cookies :
           LogoutWith(p, cr[1], cr[2], refreshToken)

\* router.post("/logout-all", authenticateToken, AuthController.logoutAll)
LogoutAllResponse(hdr, cookie) ==
    LET g == authenticateToken(hdr, cookie, now)
    IN  IF ~g.handler
        THEN g
        ELSE IF g.user = NoUser
        THEN Behind(g, 401, "UNAUTHORIZED", "User not authenticated")
        ELSE [Behind(g, 200, "", "Logged out from all devices successfully")
                EXCEPT !.cleared = TRUE]

\* Mutant: the records of every user are deleted.
LogoutAllWith_Everyone(p, hdr, cookie) ==
    LET r == LogoutAllResponse(hdr, cookie)
    IN  /\ IF r.status # 200
           THEN UNCHANGED <<refreshTokens, revokedAll>>
           ELSE /\ refreshTokens' = {}
                /\ revokedAll' = revokedAll \cup
                        {t \in issued : t.kind = "refresh" /\ t.userId = r.user.userId}
        /\ UNCHANGED <<now, users, nextId, nextTok, rq, issued, revokedOne, refreshed>>

\* Mutant: only the user's records that have expired are deleted.
LogoutAllWith_ExpiredOnly(p, hdr, cookie) ==
    LET r == LogoutAllResponse(hdr, cookie)
    IN  /\ IF r.status # 200
           THEN UNCHANGED <<refreshTokens, revokedAll>>
           ELSE /\ refreshTokens' =
                        {x \in refreshTokens :
                            x.userId # r.user.userId \/ x.expiresAt >= now}
                /\ revokedAll' = revokedAll \cup
                        {t \in issued : t.kind = "refresh" /\ t.userId = r.user.userId}
        /\ UNCHANGED <<now, users, nextId, nextTok, rq, issued, revokedOne, refreshed>>

LogoutAllWith(p, hdr, cookie) ==
    LET r == LogoutAllResponse(hdr, cookie)
    IN  /\ IF r.status # 200
           THEN UNCHANGED <<refreshTokens, revokedAll>>
           ELSE /\ refreshTokens' = {x \in refreshTokens : x.userId # r.user.userId}
                /\ revokedAll' = revokedAll \cup
                        {t \in issued : t.kind = "refresh" /\ t.userId = r.user.userId}
        /\ UNCHANGED <<now, users, nextId, nextTok, rq, issued, revokedOne, refreshed>>

LogoutAll(p) ==
    /\ Free(p)
    /\ \E cr \in Credentials : LogoutAllWith(p, cr[1], cr[2])

\* router.get("/profile", authenticateToken, AuthController.getProfile)
ProfileResponse(hdr, cookie) ==
    LET g == authenticateToken(hdr, cookie, now)
    IN  IF ~g.handler
        THEN g
        ELSE IF g.user = NoUser
        THEN Behind(g, 401, "UNAUTHORIZED", "User not authenticated")
        ELSE IF FindUserById(g.user.userId) = {}
        THEN Behind(g, 404, "USER_NOT_FOUND", "User not found")
        ELSE Behind(g, 200, "", "Profile retrieved successfully")

\* router.get("/verify", authenticateToken, ...)
VerifyResponse(hdr, cookie) ==
    LET g == authenticateToken(hdr, cookie, now)
    IN  IF ~g.handler
        THEN g
        ELSE Behind(g, 200, "", "Token is valid")

\* Profile and verify read and answer: no state of the server changes.
Profile(p) ==
    /\ Free(p)
    /\ UNCHANGED vars

Verify(p) ==
    /\ Free(p)
    /\ UNCHANGED vars

\* ------------------------------------------------------------- environment
\* Time passes.
Tick ==
    /\ now < MaxTime
    /\ now' = now + 1
    /\ UNCHANGED <<users, refreshTokens, nextId, nextTok, rq, issued, revokedAll, revokedOne, refreshed>>

\* The administrative process outside this service flips a user's isActive.
SetActive(id) ==
    /\ \E u \in users :
        /\ u.id = id
        /\ users' = (users \ {u}) \cup {[u EXCEPT !.isActive = ~u.isActive]}
    /\ UNCHANGED <<now, refreshTokens, nextId, nextTok, rq, issued, revokedAll, revokedOne, refreshed>>

Next ==
    \/ \E p \in Procs : Register(p)
    \/ \E p \in Procs : RegisterCreate(p)
    \/ \E p \in Procs : RegisterStore(p)
    \/ \E p \in Procs : Login(p)
    \/ \E p \in Procs : LoginStore(p)
    \/ \E p \in Procs : Refresh(p)
    \/ \E p \in Procs : RefreshLookup(p)
    \/ \E p \in Procs : Logout(p)
    \/ \E p \in Procs : LogoutAll(p)
    \/ \E p \in Procs : Profile(p)
    \/ \E p \in Procs : Verify(p)
    \/ Tick
    \/ \E id \in 1..MaxUsers : SetActive(id)

Spec == Init /\ [][Next]_vars

\* ------------------------------------------------------------- deletion
\* Mutant: the relation without onDelete: Cascade, the records stay behind.
DeleteUser_NoCascade(id) ==
    /\ \E u \in users : u.id = id
    /\ users' = {u \in users : u.id # id}
    /\ UNCHANGED <<now, refreshTokens, nextId, nextTok, rq, issued, revokedAll, revokedOne, refreshed>>

\* A user row is deleted by a process outside this service; the relation
\* RefreshToken.user is declared onDelete: Cascade, so the store deletes the
\* records of the user with the row.
DeleteUser(id) ==
    /\ \E u \in users : u.id = id
    /\ users' = {u \in users : u.id # id}
    /\ refreshTokens' = {x \in refreshTokens : x.userId # id}
    /\ UNCHANGED <<now, nextId, nextTok, rq, issued, revokedAll, revokedOne, refreshed>>

NextAdmin ==
    \/ Next
    \/ \E id \in 1..MaxUsers : DeleteUser(id)

SpecAdmin == Init /\ [][NextAdmin]_vars

\* ------------------------------------------------------------- expiry
\* JwtUtils.getTokenExpiration.  A duration string is the sequence of its
\* characters.  A timestamp is a count of days since the epoch and of seconds
\* within the day: every amount the function adds is a whole number of
\* seconds, the milliseconds of the clock pass through unchanged, and the
\* pair keeps the sums exact.
Digits == {"0", "1", "2", "3", "4", "5", "6", "7", "8", "9"}
Units == {"s", "m", "h", "d"}
DigitValue(c) ==
    CASE c = "0" -> 0 [] c = "1" -> 1 [] c = "2" -> 2 [] c = "3" -> 3 [] c = "4" -> 4
      [] c = "5" -> 5 [] c = "6" -> 6 [] c = "7" -> 7 [] c = "8" -> 8 [] c = "9" -> 9

\* expiresIn.match(/^(\d+)([smhd])$/)
Matches(expiresIn) ==
    /\ Len(expiresIn) >= 2
    /\ expiresIn[Len(expiresIn)] \in Units
    /\ \A i \in 1..(Len(expiresIn) - 1) : expiresIn[i] \in Digits

RECURSIVE parseInt(_)
parseInt(ds) ==
    IF ds = <<>> THEN 0
    ELSE 10 * parseInt(SubSeq(ds, 1, Len(ds) - 1)) + DigitValue(ds[Len(ds)])

DaySeconds == 86400
\* The range of a Date: 8.64e15 ms on either side of the epoch, 10^8 days.
MaxDateDays == 100000000

InvalidFormat == [kind |-> "Invalid expiration format", days |-> 0, secs |-> 0]
InvalidDate == [kind |-> "Invalid Date", days |-> 0, secs |-> 0]
\* new Date(ms): a time value out of range gives the Invalid Date, no throw.
NewDate(days, secs) ==
    IF days > MaxDateDays \/ (days = MaxDateDays /\ secs > 0)
    THEN InvalidDate
    ELSE [kind |-> "Date", days |-> days, secs |-> secs]

getTokenExpiration(expiresIn, t) ==
    IF ~Matches(expiresIn)
    THEN InvalidFormat
    ELSE LET value == parseInt(SubSeq(expiresIn, 1, Len(expiresIn) - 1))
             unit == expiresIn[Len(expiresIn)]
             days == CASE unit = "s" -> value \div DaySeconds
                       [] unit = "m" -> value \div (24 * 60)
                       [] unit = "h" -> value \div 24
                       [] unit = "d" -> value
             secs == CASE unit = "s" -> value % DaySeconds
                       [] unit = "m" -> (value % (24 * 60)) * 60
                       [] unit = "h" -> (value % 24) * 60 * 60
                       [] unit = "d" -> 0
         IN  NewDate(t.days + days + (t.secs + secs) \div DaySeconds,
                     (t.secs + secs) % DaySeconds)

\* new Date() on the model's clock: the ticks counted in days from day 20397
\* of the epoch (2025-11-05), at 17:00:00.
Today == 20397
Clock == [days |-> Today + now, secs |-> 61200]

\* ------------------------------------------------------------- failures
\* The operations of the store and of the token codec that a handler calls,
\* by the step of the handler that calls them.  Any of them may throw.
Handlers == {"register", "login", "refresh", "logout", "logoutAll", "profile"}
Late == {"generateAccessToken", "generateRefreshToken", "getTokenExpiration"}
FaultsOf(handler, pc) ==
    CASE handler = "register" /\ pc = "idle" -> {"user.findUnique"}
      [] handler = "register" /\ pc = "create" -> {"bcrypt.hash", "user.create"} \cup Late
      [] handler = "register" /\ pc = "store" -> {"refreshToken.create"}
      [] handler = "login" /\ pc = "idle" -> {"user.findUnique", "bcrypt.compare"} \cup Late
      [] handler = "login" /\ pc = "store" -> {"refreshToken.create"}
      [] handler = "refresh" /\ pc = "idle" -> {"verifyRefreshToken"}
      [] handler = "refresh" /\ pc = "lookup" -> {"refreshToken.findUnique", "generateAccessToken"}
      [] handler = "logout" /\ pc = "idle" -> {"refreshToken.deleteMany"}
      [] handler = "logoutAll" /\ pc = "idle" -> {"refreshToken.deleteMany"}
      [] handler = "profile" /\ pc = "idle" -> {"user.findUnique"}
      [] OTHER -> {}

\* Mutant: the catch block puts the error's own message in the answer.
Caught_Leaks(handler, fault) == Answer(500, "INTERNAL_ERROR", fault)

\* The answer to a request in which the operation fault threw: the try/catch
\* around the verification in refreshToken, else the catch block of the handler.
Caught(handler, fault) ==
    IF handler = "refresh" /\ fault = "verifyRefreshToken"
    THEN Answer(401, "INVALID_REFRESH_TOKEN", "Invalid refresh token")
    ELSE InternalError

\* A throw in the first step of a handler: the handler has written nothing yet.
\* (Behind the gate, the handler is reached with a token that verifies.)
ThrowsAtOnce(p, handler) ==
    /\ Free(p)
    /\ FaultsOf(handler, "idle") # {}
    /\ handler \in {"logout", "logoutAll", "profile"} =>
           \E cr \in Credentials : authenticateToken(cr[1], cr[2], now).handler
    /\ UNCHANGED vars

\* A throw in the step of register that inserts the row: before or in the
\* insert, or after it, when the row is already stored.
RegisterCreateThrows(p, fault) ==
    /\ rq[p].op = "register" /\ rq[p].pc = "create"
    /\ fault \in FaultsOf("register", "create")
    /\ IF fault \in Late /\ UserCreateOk(rq[p].email)
       THEN /\ users' = users \cup {[id |-> nextId, email |-> rq[p].email,
                                     password |-> Hash(rq[p].password), isActive |-> TRUE]}
            /\ nextId' = nextId + 1
       ELSE UNCHANGED <<users, nextId>>
    /\ rq' = [rq EXCEPT ![p] = Blank]
    /\ UNCHANGED <<now, refreshTokens, nextTok, issued, revokedAll, revokedOne, refreshed>>

\* A throw in a later step of login or refresh, or in the last step of
\* register: the request ends, the store stays as the earlier steps left it.
LaterThrows(p) ==
    /\ rq[p].pc \in {"store", "lookup"}
    /\ FaultsOf(rq[p].op, rq[p].pc) # {}
    /\ rq' = [rq EXCEPT ![p] = Blank]
    /\ UNCHANGED <<now, users, refreshTokens, nextId, nextTok, issued, revokedAll, revokedOne, refreshed>>

NextFail ==
    \/ Next
    \/ \E p \in Procs, handler \in Handlers : ThrowsAtOnce(p, handler)
    \/ \E p \in Procs, fault \in FaultsOf("register", "create") : RegisterCreateThrows(p, fault)
    \/ \E p \in Procs : LaterThrows(p)

SpecFail == Init /\ [][NextFail]_vars

\* ------------------------------------------------------------- claims
\* What the claims are stated with, written from the store and the token
\* alone: the signature and embedded expiry of a token, the record of a token,
\* the owner of a record.
SignedAccess(t) == t.kind = "access"
SignedRefresh(t) == t.kind = "refresh"
Unexpired(t) == now < t.exp
RecordsOf(t) == {x \in refreshTokens : x.token = t}
OwnersOf(x) == {u \in users : u.id = x.userId}
Usable(t) ==
    \E x \in RecordsOf(t) : x.expiresAt >= now /\ \E u \in OwnersOf(x) : u.isActive
Lookups == {rq[p].rt : p \in {q \in Procs : rq[q].pc = "lookup"}}
IsExpiredAnswer(r) == r.status = 401 /\ r.error = "REFRESH_TOKEN_EXPIRED" /\ r.at = NoToken

\* C1: after a successful logout-all of user U, every refresh that presents a
\* refresh token issued to U before it is answered 401: REFRESH_TOKEN_EXPIRED
\* when the token passes verification and reaches the record lookup, and no
\* record of such a token is stored again.
C1_LogoutAllRevokes ==
    \A t \in revokedAll :
        /\ RecordsOf(t) = {}
        /\ IsExpiredAnswer(RefreshLookupResponse(t))
        /\ \A cr \in {<<NoHeader, t>>, <<Bearer(t), NoToken>>} :
               LET v == RefreshResponse(cr[2], cr[1], now)
               IN  /\ v.status \in {0, 401}
                   /\ v.status = 0 => v.rt = t

\* A refresh with a token revoked by logout-all is past verification, at the lookup.
C1_Witness ==
    \E p \in Procs :
        /\ rq[p].pc = "lookup"
        /\ rq[p].rt \in revokedAll
        /\ SignedRefresh(rq[p].rt) /\ Unexpired(rq[p].rt)

\* C2: a refresh is answered 200 with a new access token only if the token
\* passed verification under the refresh secret, a record with exactly that
\* token is stored, the record's expiry is not in the past and its owner is
\* active; any other answer carries no access token.
C2_RefreshNeedsAllFour ==
    /\ \A h \in Headers, c \in Cookies :
           LET v == RefreshResponse(c, h, now)
           IN  /\ v.status = 0 =>
                     /\ v.rt \in {c, h.tok}
                     /\ SignedRefresh(v.rt) /\ Unexpired(v.rt)
               /\ v.status # 0 => v.status = 401 /\ v.at = NoToken
    /\ \A t \in Lookups : SignedRefresh(t)
    /\ \A t \in Presentable \cup Lookups :
           LET r == RefreshLookupResponse(t)
           IN  /\ r.status = 200 =>
                     /\ Usable(t)
                     /\ \E x \in RecordsOf(t), u \in users :
                            /\ u.id = x.userId
                            /\ r.at.userId = u.id /\ r.at.email = u.email
               /\ r.status # 200 => r.status = 401 /\ r.at = NoToken

\* A refresh is at the lookup and will be answered 200.
C2_Witness ==
    \E p \in Procs :
        rq[p].pc = "lookup" /\ RefreshLookupResponse(rq[p].rt).status = 200

\* C3: after a successful logout that carried refresh token R, no record of R
\* is stored and every refresh that presents R is answered 401.
C3_LogoutRevokes ==
    \A t \in revokedOne :
        /\ RecordsOf(t) = {}
        /\ RefreshLookupResponse(t).status = 401
        /\ \A cr \in {<<NoHeader, t>>, <<Bearer(t), NoToken>>} :
               LET v == RefreshResponse(cr[2], cr[1], now)
               IN  /\ v.status \in {0, 401}
                   /\ v.status = 0 => v.rt = t

\* A refresh with an issued token that a logout carried is at the lookup.
C3_Witness ==
    \E p \in Procs :
        /\ rq[p].pc = "lookup"
        /\ rq[p].rt \in revokedOne \cap issued
        /\ Unexpired(rq[p].rt)

\* C4: the user table holds at most one row per email, and of the register
\* requests for one email at most one gets to the 201: two of them are never
\* both past the insert, and one that finds the row at its insert fails.
C4_OneUserPerEmail ==
    /\ \A u1 \in users, u2 \in users : u1.email = u2.email => u1 = u2
    /\ \A p \in Procs, q \in Procs :
           /\ p # q
           /\ rq[p].op = "register" /\ rq[p].pc = "store"
           /\ rq[q].op = "register" /\ rq[q].pc = "store"
           => rq[p].email # rq[q].email
    /\ \A p \in Procs :
           /\ rq[p].op = "register" /\ rq[p].pc = "create"
           /\ \E u \in users : u.email = rq[p].email
           => RegisterCreateResponse(rq[p]).status \notin {0, 201}

\* Two registers for one email are both past the lookup and one has inserted.
C4_Witness ==
    \E p \in Procs, q \in Procs :
        /\ rq[p].op = "register" /\ rq[p].pc = "store"
        /\ rq[q].op = "register" /\ rq[q].pc = "create"
        /\ rq[p].email = rq[q].email

\* C5: the register request that loses the race for a new email (it passed the
\* lookup and finds the row at its insert) is answered 409 USER_EXISTS.
C5_RaceLoserGetsConflict ==
    \A p \in Procs :
        /\ rq[p].op = "register" /\ rq[p].pc = "create"
        /\ \E u \in users : u.email = rq[p].email
        => /\ RegisterCreateResponse(rq[p]).status = 409
           /\ RegisterCreateResponse(rq[p]).error = "USER_EXISTS"

\* A register or login request with both fields, and an email no row has.
Attempt(e, pw) == [present |-> TRUE, email |-> e, password |-> pw]
Nobody == "nobody@x"
\* What an observer of a response sees of it.
Observable(r) == <<r.status, r.error, r.message>>
Deactivated == Answer(401, "ACCOUNT_DEACTIVATED", "Account is deactivated")
\* The register requests for an email that has a row.
Taken == {b \in BodiesOf(RegisterPasswords) :
            b.present /\ b.password # Empty /\ FindUserByEmail(b.email) # {}}

\* The answer to a register request for a taken email, and what handling it
\* leaves alone.
Conflict ==
    \A b \in Taken :
        RegisterResponse(b) = Answer(409, "USER_EXISTS", "User with this email already exists")
Untouched ==
    \A p \in Procs, b \in Taken :
        (Free(p) /\ RegisterWith(p, b)) => UNCHANGED <<users, refreshTokens, issued, rq>>

\* C6: a register request for an email that already has a user row is answered
\* 409 USER_EXISTS without a token, and handling it changes neither the user
\* table nor the refresh-token table, and no token is handed out.
C6_RegisterExistingEmail == []Conflict /\ [][Untouched]_vars

\* A row and a record are stored, and a free process can take a register
\* request for the row's email.
C6_Witness ==
    /\ Taken # {}
    /\ refreshTokens # {}
    /\ \E p \in Procs : Free(p)

\* C7 as stated: for a password that is not the password of the account, the
\* login answer for an email with a row is the answer for an email without
\* one, whatever the state of the account.
C7_SameAnswerAnyState ==
    \A u \in users, pw \in Passwords :
        ~Compare(pw, u.password) =>
            Observable(LoginResponse(Attempt(u.email, pw))) =
                Observable(LoginResponse(Attempt(Nobody, pw)))

\* C7: for a password that is not the password of the account, the login
\* answer for the email of an active account is the answer for an email
\* without a row; the email of a deactivated account is answered
\* ACCOUNT_DEACTIVATED whatever the password, which tells it from both.
C7_SameAnswerWhenActive ==
    \A u \in users, pw \in Passwords :
        /\ (u.isActive /\ ~Compare(pw, u.password)) =>
                Observable(LoginResponse(Attempt(u.email, pw))) =
                    Observable(LoginResponse(Attempt(Nobody, pw)))
        /\ ~u.isActive =>
                /\ LoginResponse(Attempt(u.email, pw)) = Deactivated
                /\ Observable(LoginResponse(Attempt(u.email, pw))) #
                       Observable(LoginResponse(Attempt(Nobody, pw)))

\* An active account and a deactivated one, and a free process to log in.
C7_Witness ==
    /\ \E u \in users : u.isActive
    /\ \E u \in users : ~u.isActive
    /\ \E p \in Procs : Free(p)

\* The logins past their checks whose user has the active flag cleared.
Overtaken ==
    {p \in Procs : /\ rq[p].op = "login" /\ rq[p].pc = "store"
                   /\ \E u \in users : u.id = rq[p].uid /\ ~u.isActive}
\* What a login and a refresh are answered when they read a deactivated row.
DeactivatedAtRead ==
    /\ \A u \in users, pw \in Passwords :
           ~u.isActive => LoginResponse(Attempt(u.email, pw)) = Deactivated
    /\ \A x \in refreshTokens :
           (x.expiresAt >= now /\ \E u \in OwnersOf(x) : ~u.isActive) =>
               RefreshLookupResponse(x.token) = Deactivated

\* C8 as stated: while the active flag of a user is false, no login and no
\* refresh of that user is answered with success.
C8_NoSuccessWhileInactive ==
    /\ DeactivatedAtRead
    /\ \A p \in Overtaken : LoginStoreResponse(rq[p]).status # 200

\* C8: a login or refresh that reads the user row while the active flag is
\* false is answered 401 ACCOUNT_DEACTIVATED, without a token and without
\* going on to create a record; a login that read the row before the flag was
\* cleared still stores its record and is answered 200.
C8_DeactivatedWhenRead ==
    /\ DeactivatedAtRead
    /\ \A p \in Overtaken :
           /\ LoginStoreResponse(rq[p]).status = 200
           /\ LoginStoreResponse(rq[p]).rt = rq[p].rt

\* A refresh is at the lookup with a stored, unexpired token of a deactivated user.
C8_Witness ==
    \E p \in Procs :
        /\ rq[p].pc = "lookup"
        /\ \E x \in RecordsOf(rq[p].rt) :
               x.expiresAt >= now /\ \E u \in OwnersOf(x) : ~u.isActive

\* A refresh with t passes both steps.
Refreshes(t) ==
    /\ RefreshResponse(t, NoHeader, now).status = 0
    /\ RefreshLookupResponse(t).status = 200
\* No step of a refresh changes the stored records.
NoRotation ==
    \A p \in Procs : (RefreshLookup(p) \/ Refresh(p)) => refreshTokens' = refreshTokens

\* A token that was refreshed with refreshes again: while its record is stored
\* and unexpired; while, besides, it verifies and its owner is active.
ReuseUntilExpiryOrLogout ==
    \A t \in refreshed :
        (\E x \in RecordsOf(t) : x.expiresAt >= now) => Refreshes(t)
ReuseWhileUsable ==
    \A t \in refreshed :
        /\ (Usable(t) /\ Unexpired(t)) => Refreshes(t)
        /\ ~Usable(t) => RefreshLookupResponse(t).status = 401

Gated(h, c) ==
    {LogoutResponse(h, c), LogoutAllResponse(h, c), ProfileResponse(h, c), VerifyResponse(h, c)}
Verifies(t) == SignedAccess(t) /\ Unexpired(t)

\* What the gate lets through, and when records are deleted.
GateChecks ==
    \A h \in Headers, c \in Cookies : \A r \in Gated(h, c) :
        /\ r.handler =>
               /\ Truthy(r.tok)
               /\ r.tok \in {h.tok, c}
               /\ Verifies(r.tok)
               /\ r.user = [userId |-> r.tok.userId, email |-> r.tok.email]
        /\ ~r.handler =>
               /\ r.status = 401 /\ r.error = "UNAUTHORIZED"
               /\ r.user = NoUser /\ ~r.cleared
        /\ (~Verifies(h.tok) /\ ~Verifies(c)) => ~r.handler
DeletesBehindGate ==
    ~(refreshTokens \subseteq refreshTokens') => \E t \in Presentable : Verifies(t)

\* C10: a handler behind the gate runs only on a request of which the gate
\* took a token, from the header or the cookie, that passes access-token
\* verification, and the identity of the request is the userId and email of
\* that token; any other request is answered 401 UNAUTHORIZED by the gate,
\* and the records that the handlers delete are deleted only while some
\* token that can be presented verifies.
C10_GateBeforeHandler == []GateChecks /\ [][DeletesBehindGate]_vars

\* A logout has passed the gate and deleted, and an access token still verifies.
C10_Witness ==
    /\ revokedOne # {}
    /\ \E t \in issued : Verifies(t)

\* The two ways a client presents the access token t to the gate.
Presenting(t) == {<<Bearer(t), NoToken>>, <<NoHeader, t>>}
\* The identity an access token carries.
IdentityOf(t) == [userId |-> t.userId, email |-> t.email]
\* The users that have no session in the store.
LoggedOut == {u \in users : ~\E x \in refreshTokens : x.userId = u.id}

\* C11: every access token that was issued is accepted by the gate exactly
\* while its embedded expiry has not elapsed, whatever the store holds: after
\* a logout or logout-all that left its user without a record as before.
C11_StalenessWindow ==
    \A t \in issued : SignedAccess(t) =>
        \A cr \in Presenting(t) :
            LET g == authenticateToken(cr[1], cr[2], now)
            IN  /\ g.handler <=> Unexpired(t)
                /\ Unexpired(t) =>
                       /\ g.user = IdentityOf(t)
                       /\ VerifyResponse(cr[1], cr[2]).status = 200
                /\ ~Unexpired(t) => g.status = 401

\* After a logout-all the user has no record left and an access token issued
\* to the user before it has not expired.
C11_Witness ==
    \E t \in issued :
        /\ SignedAccess(t) /\ Unexpired(t)
        /\ \E r \in revokedAll : r.userId = t.userId
        /\ \E u \in LoggedOut : u.id = t.userId

\* C12: for every payload {userId, email}, the access token minted from it
\* passes verifyAccessToken at every time before its expiry, and what the
\* verification gives back is the same userId and the same email.
C12_AccessRoundTrip ==
    \A userId \in 1..MaxUsers, email \in Emails \cup {Nobody} :
        LET tok == generateAccessToken(userId, email, now)
        IN  \A t \in now..(tok.exp - 1) :
                /\ verifyAccessToken(tok, t)
                /\ authenticateToken(Bearer(tok), NoToken, t).handler
                /\ authenticateToken(Bearer(tok), NoToken, t).user =
                       [userId |-> userId, email |-> email]

\* The access token minted for a stored user has been handed out and has not expired.
C12_Witness ==
    \E t \in issued, u \in users :
        /\ t = generateAccessToken(u.id, u.email, t.iat)
        /\ Unexpired(t)
        /\ verifyAccessToken(t, now)

\* C13: an access token minted at T with duration D carries the expiry T+D,
\* passes verifyAccessToken at every time from T before T+D, and is rejected
\* by verifyAccessToken, and by the gate with 401, at T+D and at every later
\* time, its signature being the access secret's all along.
C13_AccessExpiry ==
    \A tok \in {x \in issued : SignedAccess(x)} :
        /\ tok.exp = tok.iat + AccessTTL
        /\ \A t \in tok.iat..(MaxTime + 1) :
               /\ verifyAccessToken(tok, t) <=> t < tok.iat + AccessTTL
               /\ t >= tok.iat + AccessTTL =>
                      \A cr \in Presenting(tok) :
                          /\ ~authenticateToken(cr[1], cr[2], t).handler
                          /\ authenticateToken(cr[1], cr[2], t).status = 401

\* The clock is past T+D of an access token that was handed out.
C13_Witness ==
    \E tok \in issued :
        /\ SignedAccess(tok)
        /\ now > tok.iat + AccessTTL
        /\ ~verifyAccessToken(tok, now)

\* The records a step adds, the last step of a register or login, and the
\* answer that step gives.
Added == refreshTokens' \ refreshTokens
Storing(p) == RegisterStore(p) \/ LoginStore(p)
StoringResponse(p) ==
    IF rq[p].op = "register" THEN RegisterStoreResponse(rq[p]) ELSE LoginStoreResponse(rq[p])
\* A register or login that answers 200 or 201 adds the one record of its
\* refresh token; no other step adds a record.
OneRecordPerSuccess ==
    /\ \A p \in Procs : Storing(p) =>
           LET r == StoringResponse(p)
           IN  IF r.status \in {200, 201}
               THEN /\ refreshTokens \subseteq refreshTokens'
                    /\ Added = {[token |-> r.rt, userId |-> rq[p].uid,
                                 expiresAt |-> r.rt.iat + StoredRefreshTTL]}
                    /\ Truthy(r.rt) /\ r.rt \in issued'
                    /\ r.rt.userId = rq[p].uid
                    /\ \E u \in users : u.id = rq[p].uid /\ u.email = rq[p].email
               ELSE refreshTokens' = refreshTokens
    /\ (\A p \in Procs : ~Storing(p)) => Added = {}

\* C14: a register or login that answers with success adds exactly one
\* refresh-token record, with the refresh token handed to the client, the id
\* of the user registered or logged in, and as expiry the time at which the
\* handler minted the token plus the configured refresh duration; a step of
\* register or login that answers otherwise, as every other step, adds none.
C14_OneRecordPerSuccess == [][OneRecordPerSuccess]_vars

\* A register and a login have both stored the record of a token they handed out.
C14_Witness ==
    /\ Cardinality(refreshTokens) = 2
    /\ \A x \in refreshTokens :
           x.token \in issued /\ x.expiresAt = x.token.iat + StoredRefreshTTL

\* A register request past its lookup, as the insert finds it.
AtCreate(e, pw) ==
    [Blank EXCEPT !.op = "register", !.pc = "create", !.email = e, !.password = pw]
Registers == {p \in Procs : rq[p].op = "register"}
Logins == {p \in Procs : rq[p].op = "login"}
\* Register with an unregistered email passes every check and ends in 201;
\* login with the email and password of an active row passes every check and
\* ends in 200; the user view has no password.
RegisterThenLogin ==
    /\ \A e \in Emails, pw \in RegisterPasswords :
           FindUserByEmail(e) = {} =>
               /\ RegisterResponse(Attempt(e, pw)) = Pending
               /\ RegisterCreateResponse(AtCreate(e, pw)) = Pending
    /\ \A p \in Registers :
           rq[p].pc = "store" =>
               /\ RegisterStoreResponse(rq[p]).status = 201
               /\ \E u \in users : u.id = rq[p].uid /\ u.email = rq[p].email
    /\ \A u \in users, pw \in Passwords :
           (u.isActive /\ u.password = Hash(pw)) =>
               LoginResponse(Attempt(u.email, pw)) = Pending
    /\ \A p \in Logins :
           rq[p].pc = "store" => LoginStoreResponse(rq[p]).status = 200
    /\ \A u \in users :
           /\ DOMAIN UserView(u) \cap {"password", "passwordHash", "hashedPassword"} = {}
           /\ UserView(u).id = u.id /\ UserView(u).email = u.email
\* The insert of a register stores an active row with the email and the hash
\* of the password of the request, which that password then matches.
RowOfRegister ==
    \A p \in Procs :
        (RegisterCreate(p) /\ RegisterCreateResponse(rq[p]) = Pending) =>
            \E u \in users' \ users :
                /\ u.email = rq[p].email /\ u.isActive
                /\ u.password = Hash(rq[p].password)
                /\ Compare(rq[p].password, u.password)

\* C15: register with a non-empty password and an email that is unregistered
\* up to its insert ends in 201 and stores an active row that the password
\* matches; a login with that email and password that finds the row active
\* ends in 200; the user view of both answers has no password and no hash.
C15_RegisterThenLogin == []RegisterThenLogin /\ [][RowOfRegister]_vars

\* A login with the password of a registered, active user is past its checks.
C15_Witness ==
    \E p \in Logins :
        /\ rq[p].pc = "store"
        /\ \E u \in users : u.id = rq[p].uid /\ u.isActive /\ u.email = rq[p].email

\* The access token that the operation of p is about to return, if it is
\* about to succeed.
Returning(p) ==
    IF rq[p].pc = "store" THEN rq[p].at
    ELSE IF rq[p].pc = "lookup" THEN RefreshLookupResponse(rq[p].rt).at
    ELSE NoToken

\* C16: the access token that a register, login or refresh is about to return
\* differs from every access token returned before and from the one any
\* other operation in progress is about to return.
C16_FreshAccessTokens ==
    \A p \in Procs :
        Truthy(Returning(p)) =>
            /\ Returning(p) \notin issued
            /\ \A q \in Procs \ {p} : Returning(q) # Returning(p)

\* The steps that p may take next: the first step of any handler when it is
\* free, else the next step of the handler it is in.
Steps(p) == IF Free(p) THEN Handlers \X {"idle"} ELSE {<<rq[p].op, rq[p].pc>>}

\* C17 as stated: whichever operation of the store or of the token codec
\* throws in whichever step of register, login, refresh, logout, logout-all
\* or profile, the request is answered 500 INTERNAL_ERROR "Internal server
\* error" and nothing else.
C17_FailuresAnswer500 ==
    \A p \in Procs : \A st \in Steps(p) : \A fault \in FaultsOf(st[1], st[2]) :
        Caught(st[1], fault) = InternalError

\* The answer to every throw but that of the verification in refresh is the
\* 500 of the catch block; the verification's is the 401 of an invalid token.
CaughtAnswers ==
    \A p \in Procs : \A st \in Steps(p) : \A fault \in FaultsOf(st[1], st[2]) :
        Caught(st[1], fault) =
            IF fault = "verifyRefreshToken"
            THEN Answer(401, "INVALID_REFRESH_TOKEN", "Invalid refresh token")
            ELSE InternalError
\* A throw ends the request: no step of it follows, no record is stored and
\* no token is handed out.
Terminal ==
    \A p \in Procs :
        (LaterThrows(p) \/ \E fault \in FaultsOf("register", "create") : RegisterCreateThrows(p, fault))
            => /\ rq'[p] = Blank
               /\ refreshTokens' = refreshTokens
               /\ issued' = issued

\* C17: a throw of a store operation or of a token-minting operation in any
\* step of register, login, refresh, logout, logout-all or profile is answered
\* 500 INTERNAL_ERROR "Internal server error" with nothing else in the answer,
\* and ends the request; a throw of the refresh-token verification, whatever
\* its cause, is answered 401 INVALID_REFRESH_TOKEN.
C17_FailuresAnswer500ButVerification == []CaughtAnswers /\ [][Terminal]_vars

\* A register threw after its insert: a row is stored, no request is in
\* progress and no token was ever handed out.
C17_Witness ==
    /\ users # {}
    /\ issued = {}
    /\ \A p \in Procs : Free(p)

\* The records that are left of a set of records when those of one refresh
\* token, if the request carries one, are deleted.
AfterLogout(records, refreshToken) ==
    IF Truthy(refreshToken)
    THEN {x \in records : x.token # refreshToken}
    ELSE records
\* A logout that reaches the handler is answered 200 with both cookies
\* cleared, whether a record matches its refresh token or none does; a
\* token has at most one record; deleting twice is deleting once.
LogoutSucceeds ==
    /\ \A h \in Headers, c \in Cookies :
           LogoutResponse(h, c).handler =>
               /\ LogoutResponse(h, c).status = 200
               /\ LogoutResponse(h, c).message = "Logout successful"
               /\ LogoutResponse(h, c).cleared
    /\ \A t \in Cookies :
           /\ Cardinality(FindRefreshToken(t)) <= 1
           /\ AfterLogout(AfterLogout(refreshTokens, t), t) = AfterLogout(refreshTokens, t)
\* A logout that deletes leaves the store without the record of its refresh
\* token and otherwise as it was, so that the same logout again deletes nothing.
LogoutDeletesOnce ==
    (refreshTokens' # refreshTokens /\ rq' = rq /\ issued' = issued) =>
        \A p \in Procs, cr \in Credentials, t \in Cookies :
            (Free(p) /\ LogoutWith(p, cr[1], cr[2], t)) =>
                /\ refreshTokens' = AfterLogout(refreshTokens, t)
                /\ AfterLogout(refreshTokens', t) = refreshTokens'
                /\ users' = users

\* C18: a logout that reaches the handler is answered with success and clears
\* both cookies whether zero or one stored record matches its refresh token,
\* and the same logout once more leaves the store as the first one left it.
C18_LogoutIdempotent == []LogoutSucceeds /\ [][LogoutDeletesOnce]_vars

\* A logout has deleted the record of a token that was handed out, and a
\* free process can repeat it with an access token that still verifies.
C18_Witness ==
    /\ \E t \in revokedOne \cap issued : FindRefreshToken(t) = {}
    /\ \E a \in issued : Verifies(a)
    /\ \E p \in Procs : Free(p)

\* The token that a request offers: the one after "Bearer " in the
\* Authorization header when there is one, else the accessToken cookie.
Offered(h, c) ==
    IF h.scheme = "Bearer " /\ Truthy(h.tok) THEN h.tok ELSE c

\* C19: the optional gate answers no request and passes every request on;
\* the request has an identity exactly when it offers a token that passes
\* access-token verification, the identity then being the userId and email
\* of that token; with no token, or with one that is malformed, expired or
\* signed with another secret, the identity is absent.
C19_OptionalGate ==
    \A h \in Headers, c \in Cookies :
        LET g == optionalAuth(h, c, now)
        IN  /\ g.handler
            /\ g.status = 0 /\ g.error = "" /\ ~g.cleared
            /\ g.user # NoUser <=> (Truthy(Offered(h, c)) /\ Verifies(Offered(h, c)))
            /\ g.user # NoUser => g.user = IdentityOf(Offered(h, c))
            /\ (~Truthy(Offered(h, c)) \/ Offered(h, c).kind # "access" \/ now >= Offered(h, c).exp)
                   => g.user = NoUser

\* An access token that has expired and one that still verifies were handed
\* out: the gate passes a request on without identity for the first, in the
\* header, and with identity for the second.
C19_Witness ==
    \E a \in issued, b \in issued :
        /\ SignedAccess(a) /\ ~Unexpired(a)
        /\ Verifies(b)
        /\ optionalAuth(Bearer(a), b, now).user = NoUser
        /\ optionalAuth(NoHeader, b, now).user = IdentityOf(b)

\* The duration strings the function is tried with: every string of at most
\* two characters over the digits, the unit letters and three others, the
\* strings of the examples, and magnitudes of up to nine digits.
Characters == Digits \cup Units \cup {"w", "-", " "}
Durations ==
    {<<>>} \cup {<<a>> : a \in Characters} \cup {<<a, b>> : a \in Characters, b \in Characters}
    \cup {<<"1", "5", "m">>, <<"7", "d">>, <<"1", "5">>, <<"b", "o", "g", "u", "s">>,
          <<"0", "0", "7", "d">>, <<"1", "5", "m", "s">>, <<"1", "5", " ", "m">>, <<"m", "1", "5">>,
          <<"1", ".", "5", "h">>, <<"1", "5", "M">>, <<"9", "0", "0", "s">>, <<"3", "6", "5", "d">>}
    \cup {<<"9", "9", "9", "9", "9", "9", "9", "9", "9", u>> : u \in Units}
    \cup {<<"1", "0", "0", "0", "0", "0", "0", "0", "0", u>> : u \in Units}
\* One or more decimal digits followed by exactly one unit letter.
DigitsThenUnit(str) ==
    /\ Len(str) >= 2
    /\ \A i \in 1..Len(str) : (i < Len(str)) <=> (str[i] \in Digits)
    /\ str[Len(str)] \in Units
SecondsPer(u) ==
    CASE u = "s" -> 1 [] u = "m" -> 60 [] u = "h" -> 3600 [] u = "d" -> 86400
\* The time t plus n times k seconds, k dividing the day.
Plus(t, n, k) ==
    LET perDay == 86400 \div k
        secs == t.secs + (n % perDay) * k
    IN  [kind |-> "Date", days |-> t.days + n \div perDay + secs \div 86400,
         secs |-> secs % 86400]

\* C20: for every string of one or more decimal digits n and one unit letter
\* the result is the time of the clock plus n seconds for s, n*60 for m,
\* n*3600 for h and n*86400 for d; for every other string the function
\* fails with the invalid-format error.
C20_ComputeExpiry ==
    \A str \in Durations :
        IF DigitsThenUnit(str)
        THEN getTokenExpiration(str, Clock) =
                Plus(Clock, parseInt(SubSeq(str, 1, Len(str) - 1)), SecondsPer(str[Len(str)]))
        ELSE getTokenExpiration(str, Clock) = InvalidFormat

\* The refresh tokens handed out to users whose row is gone.
Orphaned == {t \in issued : SignedRefresh(t) /\ FindUserById(t.userId) = {}}
\* Every record has its owner's row; the tokens of a deleted user have no
\* record and fail at the lookup of refresh.
Referential ==
    /\ \A x \in refreshTokens : FindUserById(x.userId) # {}
    /\ \A t \in Orphaned :
           /\ RecordsOf(t) = {}
           /\ IsExpiredAnswer(RefreshLookupResponse(t))
\* The step that deletes a user row deletes the records of that user, and
\* only those.
Cascades ==
    \A id \in 1..MaxUsers :
        DeleteUser(id) =>
            /\ refreshTokens' = {x \in refreshTokens : x.userId # id}
            /\ \A x \in refreshTokens' : \E u \in users' : u.id = x.userId

\* C21: in every reachable state the owner id of each refresh-token record is
\* the id of a stored user row; the step that deletes a user deletes all the
\* records of that user, and a refresh with a token of a deleted user fails.
C21_ReferentialIntegrity == []Referential /\ [][Cascades]_vars

\* A refresh with a token of a deleted user is at the lookup.
C21_Witness ==
    \E p \in Procs :
        /\ rq[p].pc = "lookup"
        /\ rq[p].rt \in Orphaned
        /\ Unexpired(rq[p].rt)

\* The text of a token, character by character, and the header strings the
\* function is tried with: for every token a client can present, the token
\* after "Bearer ", after other prefixes and alone; the prefix alone and
\* shortened; the empty string.
Letter(kind) ==
    CASE kind = "access" -> "a" [] kind = "refresh" -> "r" [] kind = "forged" -> "x"
      [] OTHER -> "z"
Numeral(n) ==
    CASE n = 0 -> "0" [] n = 1 -> "1" [] n = 2 -> "2" [] n = 3 -> "3" [] n = 4 -> "4"
      [] n = 5 -> "5" [] n = 6 -> "6" [] n = 7 -> "7" [] n = 8 -> "8" [] OTHER -> "9"
Spell(t) == <<Letter(t.kind), ".", Numeral(t.userId), Numeral(t.tokenId), Numeral(t.iat)>>
Prefixes ==
    {BearerPrefix, <<>>, <<" ">>, <<"B", "e", "a", "r", "e", "r">>,
     <<"b", "e", "a", "r", "e", "r", " ">>, <<"B", "E", "A", "R", "E", "R", " ">>,
     <<"B", "a", "s", "i", "c", " ">>, <<" ", "B", "e", "a", "r", "e", "r", " ">>,
     <<"B", "e", "a", "r", "e", "r", " ", " ">>, <<"B", "e", "a", "r", "e", "r", "\t">>}
Rests == {Spell(t) : t \in Presentable} \cup {<<>>, <<" ">>, <<"a", " ", "b">>}
HeaderTexts == {Absent} \cup {Text(pre \o rest) : pre \in Prefixes, rest \in Rests}
\* The first seven characters are those of "Bearer ", written out.
BeginsWithBearer(cs) ==
    /\ Len(cs) >= 7
    /\ cs[1] = "B" /\ cs[2] = "e" /\ cs[3] = "a" /\ cs[4] = "r"
    /\ cs[5] = "e" /\ cs[6] = "r" /\ cs[7] = " "

\* C22: for a header that begins with the seven characters "Bearer " the
\* result is the header from its eighth character on, nothing added and
\* nothing dropped; for an absent header and for one that does not begin so
\* the result is absent; the function has a result for every header.
C22_ExtractBearerToken ==
    /\ \A hdr \in HeaderTexts :
           LET out == extractTokenFromHeaderText(hdr)
           IN  IF hdr.present /\ BeginsWithBearer(hdr.chars)
               THEN /\ out.present
                    /\ Len(out.chars) = Len(hdr.chars) - 7
                    /\ \A i \in 1..Len(out.chars) : out.chars[i] = hdr.chars[i + 7]
               ELSE out = Absent
    /\ \A h \in Headers :
           extractTokenFromHeader(h) = IF h.scheme = "Bearer " THEN h.tok ELSE NoToken

\* An access token was handed out; its text after "Bearer " comes back as sent.
C22_Witness ==
    \E t \in issued :
        /\ SignedAccess(t)
        /\ extractTokenFromHeaderText(Text(BearerPrefix \o Spell(t))) = Text(Spell(t))
        /\ extractTokenFromHeader(Bearer(t)) = t

\* The token a refresh request is examined with, the answer of a refresh whose
\* two halves run in the present state, and the first check that the token
\* fails, in the order of the claim ("" when it fails none).
Examined(cookie, hdr) ==
    IF Truthy(cookie) THEN cookie
    ELSE IF hdr.scheme = "Bearer " THEN hdr.tok
    ELSE NoToken
RefreshAnswer(cookie, hdr) ==
    LET r == RefreshResponse(cookie, hdr, now)
    IN  IF r.status # 0 THEN r ELSE RefreshLookupResponse(r.rt)
FirstFailure(t) ==
    IF ~Truthy(t) THEN "REFRESH_TOKEN_REQUIRED"
    ELSE IF ~(SignedRefresh(t) /\ Unexpired(t)) THEN "INVALID_REFRESH_TOKEN"
    ELSE IF \A x \in RecordsOf(t) : x.expiresAt < now THEN "REFRESH_TOKEN_EXPIRED"
    ELSE IF \A x \in RecordsOf(t) : \A u \in OwnersOf(x) : ~u.isActive
    THEN "ACCOUNT_DEACTIVATED"
    ELSE ""

\* C23: for every cookie and Authorization header, refresh examines the
\* cookie's token when the cookie holds one and the header's Bearer token only
\* otherwise, and its answer names the first check that this token fails, in
\* the order token required, invalid token, expired or missing record,
\* deactivated account, each with status 401; a token that fails none is
\* answered 200.  A request goes on to the record lookup only with the token
\* examined, and there too the record is judged before the owner.
C23_RefreshFailureOrder ==
    /\ \A hdr \in Headers : \A cookie \in Cookies :
           LET t == Examined(cookie, hdr)
               r == RefreshAnswer(cookie, hdr)
               first == RefreshResponse(cookie, hdr, now)
           IN  /\ r.error = FirstFailure(t)
               /\ r.status = IF FirstFailure(t) = "" THEN 200 ELSE 401
               /\ first.status = 0 => first.rt = t
               /\ first.status = 0 <=>
                      FirstFailure(t) \notin {"REFRESH_TOKEN_REQUIRED", "INVALID_REFRESH_TOKEN"}
    /\ \A t \in Lookups :
           LET r == RefreshLookupResponse(t)
           IN  /\ (\A x \in RecordsOf(t) : x.expiresAt < now)
                      => r.status = 401 /\ r.error = "REFRESH_TOKEN_EXPIRED"
               /\ (\E x \in RecordsOf(t) : x.expiresAt >= now /\ \A u \in OwnersOf(x) : ~u.isActive)
                      => r.status = 401 /\ r.error = "ACCOUNT_DEACTIVATED"

\* A refresh waits at the lookup with a token that still verifies, whose
\* record has expired and whose owner is deactivated, while the request could
\* also have carried a forged token in the other place: the order decides.
C23_Witness ==
    \E p \in Procs :
        /\ rq[p].op = "refresh" /\ rq[p].pc = "lookup"
        /\ SignedRefresh(rq[p].rt) /\ Unexpired(rq[p].rt)
        /\ \E x \in RecordsOf(rq[p].rt) :
               x.expiresAt < now /\ \A u \in OwnersOf(x) : ~u.isActive
        /\ RefreshLookupResponse(rq[p].rt).error = "REFRESH_TOKEN_EXPIRED"
        /\ RefreshAnswer(rq[p].rt, Bearer(Forged)).error = "REFRESH_TOKEN_EXPIRED"
        /\ RefreshAnswer(Forged, Bearer(rq[p].rt)).error = "INVALID_REFRESH_TOKEN"

\* What either gate makes of the one token it is given: the required gate
\* answers 401 or goes on with the identity of the token, the optional gate
\* goes on with that identity or with none.
Judged(g, token) ==
    /\ g.tok = token
    /\ g.handler <=> (Truthy(token) /\ verifyAccessToken(token, now))
    /\ g.status = IF g.handler THEN 0 ELSE 401
    /\ g.user = IF g.handler THEN [userId |-> token.userId, email |-> token.email] ELSE NoUser
JudgedOptional(g, token) ==
    /\ g.tok = token
    /\ g.handler /\ g.status = 0
    /\ g.user = IF Truthy(token) /\ verifyAccessToken(token, now)
                THEN [userId |-> token.userId, email |-> token.email] ELSE NoUser

\* C24: for every Authorization header and accessToken cookie, both gates
\* judge the request by one token: the Bearer token of the header when the
\* header yields a non-empty one, whatever the cookie holds, and the cookie's
\* token only when the header yields none.  A header token that is rejected
\* is not retried with the cookie: the outcome is that of the same header
\* with no cookie at all.
C24_GateTokenSelection ==
    \A hdr \in Headers : \A cookie \in Cookies :
        LET fromHeader == extractTokenFromHeader(hdr)
            g == authenticateToken(hdr, cookie, now)
            o == optionalAuth(hdr, cookie, now)
        IN  IF Truthy(fromHeader)
            THEN /\ Judged(g, fromHeader) /\ JudgedOptional(o, fromHeader)
                 /\ g = authenticateToken(hdr, NoToken, now)
                 /\ o = optionalAuth(hdr, NoToken, now)
            ELSE IF Truthy(cookie)
            THEN /\ Judged(g, cookie) /\ JudgedOptional(o, cookie)
                 /\ g = authenticateToken(NoHeader, cookie, now)
                 /\ o = optionalAuth(NoHeader, cookie, now)
            ELSE g.status = 401 /\ ~g.handler /\ o.handler /\ o.user = NoUser

\* An expired access token in the header beside an unexpired one in the
\* cookie: the required gate answers 401, the optional gate goes on
\* anonymous, and the other way round both accept the header's token.
C24_Witness ==
    \E old \in issued : \E new \in issued :
        /\ SignedAccess(old) /\ ~Unexpired(old)
        /\ SignedAccess(new) /\ Unexpired(new)
        /\ authenticateToken(Bearer(old), new, now).status = 401
        /\ optionalAuth(Bearer(old), new, now).user = NoUser
        /\ authenticateToken(Bearer(new), old, now).handler
        /\ authenticateToken(NoHeader, new, now).handler

\* The steps in which a register request of p is answered with a failure: a
\* 400 or 409 of its checks, a 500 of the insert, of the minting after it or
\* of the storing of the record.
RejectedAtOnce(p) ==
    \E b \in BodiesOf(RegisterPasswords) :
        Free(p) /\ RegisterWith(p, b) /\ RegisterResponse(b).status \in {400, 409}
FailedAtCreate(p) ==
    \/ RegisterCreate(p) /\ RegisterCreateResponse(rq[p]).status = 500
    \/ \E fault \in FaultsOf("register", "create") :
           RegisterCreateThrows(p, fault) /\ Caught("register", fault).status = 500
FailedAtStore(p) ==
    /\ rq[p].op = "register"
    /\ \/ RegisterStore(p) /\ RegisterStoreResponse(rq[p]).status = 500
       \/ LaterThrows(p) /\ \A fault \in FaultsOf("register", "store") :
                                Caught("register", fault).status = 500
\* The row that a register request at its last step inserted before.
OwnRow(r) == {u \in users : u.id = r.uid /\ u.email = r.email}
RegisterAllOrNothing ==
    \A p \in Procs :
        /\ RejectedAtOnce(p) \/ FailedAtCreate(p)
               => users' = users /\ refreshTokens' = refreshTokens
        /\ FailedAtStore(p)
               => /\ refreshTokens' = refreshTokens
                  /\ users' = users \ OwnRow(rq[p])

\* C25: a register request that is answered 400, 409 or 500 leaves the user
\* table and the refresh-token table as they were before the request: the
\* step that answers the failure stores no row and no record, and a failure
\* after the insert of the row takes the row out again.
C25_RegisterAllOrNothing == [][RegisterAllOrNothing]_vars

\* The requests in which the gate, and refresh, examine the token t: in the
\* Authorization header beside any cookie, or in the cookie when the header
\* (for refresh: the cookie, then the header) yields no token.
ToGate(t) ==
    {<<Bearer(t), c>> : c \in Cookies} \cup
    {<<h, t>> : h \in {x \in Headers : ~Truthy(extractTokenFromHeader(x))}}
ToRefresh(t) ==
    {<<h, t>> : h \in Headers} \cup {<<Bearer(t), NoToken>>}
Instants == 0..MaxTime

\* C26: a refresh token handed out by the server, presented to the gate as
\* access token in the header or in the cookie, is answered 401 and the
\* handler does not run (the optional gate goes on without identity); an
\* access token handed out by the server, presented to refresh in the cookie
\* or in the header, is answered 401 INVALID_REFRESH_TOKEN and never reaches
\* the record lookup; at no instant do verifyAccessToken and
\* verifyRefreshToken both accept one token.
C26_TokenKindsSeparate ==
    /\ \A t \in issued : SignedRefresh(t) =>
           \A rqst \in ToGate(t) :
               LET g == authenticateToken(rqst[1], rqst[2], now)
                   o == optionalAuth(rqst[1], rqst[2], now)
               IN  /\ g.tok = t /\ g.status = 401 /\ ~g.handler /\ g.user = NoUser
                   /\ o.tok = t /\ o.user = NoUser
    /\ \A t \in issued : SignedAccess(t) =>
           /\ \A rqst \in ToRefresh(t) :
                  RefreshResponse(rqst[2], rqst[1], now) =
                      Answer(401, "INVALID_REFRESH_TOKEN", "Invalid refresh token")
           /\ t \notin Lookups
    /\ \A t \in Presentable : \A instant \in Instants :
           ~(verifyAccessToken(t, instant) /\ verifyRefreshToken(t, instant))

\* An access token and a refresh token of one user, both unexpired: the
\* first passes the gate and the second passes the verification of refresh,
\* and a refresh with the second is at its record lookup.
C26_Witness ==
    \E a \in issued : \E r \in issued :
        /\ SignedAccess(a) /\ SignedRefresh(r) /\ a.userId = r.userId
        /\ verifyAccessToken(a, now) /\ verifyRefreshToken(r, now)
        /\ authenticateToken(Bearer(a), r, now).handler
        /\ r \in Lookups

\* The records a step removes, and the three parts of the isolation: what a
\* logout removes, what a logout-all removes, and that a step of any
\* operation only adds records with a token no record had, or only removes
\* records, so that a stored record keeps its token, owner and expiry.
\* (A logout and a logout-all are one step each, taken by a free process;
\* only the steps that change a table or a set of revoked tokens are looked
\* at, every other step leaves all rows and records as they were.)
Removed == refreshTokens \ refreshTokens'
Revoking ==
    /\ \E p \in Procs : Free(p)
    /\ <<users, refreshTokens, revokedOne, revokedAll>>' #
           <<users, refreshTokens, revokedOne, revokedAll>>
LogoutIsolated ==
    Revoking =>
        \A cr \in Credentials, R \in Cookies :
            LogoutWith(1, cr[1], cr[2], R) =>
                /\ users' = users
                /\ refreshTokens' \subseteq refreshTokens
                /\ \A x \in Removed : x.token = R
                /\ Cardinality(Removed) <= 1
LogoutAllIsolated ==
    Revoking =>
        \A cr \in Credentials :
            LogoutAllWith(1, cr[1], cr[2]) =>
                LET r == LogoutAllResponse(cr[1], cr[2])
                IN  /\ users' = users
                    /\ refreshTokens' \subseteq refreshTokens
                    /\ Removed = IF r.status = 200
                                 THEN {x \in refreshTokens : x.userId = r.user.userId}
                                 ELSE {}
                    /\ \A x \in refreshTokens :
                           x.userId # r.user.userId => x \in refreshTokens'
NeverUpdated ==
    /\ refreshTokens' \subseteq refreshTokens \/ refreshTokens \subseteq refreshTokens'
    /\ \A y \in refreshTokens' \ refreshTokens : \A x \in refreshTokens : x.token # y.token

\* C27: a logout with refresh token R removes at most the one record whose
\* token is R and leaves every other record and every user row as it was; a
\* logout-all of user U removes exactly the records owned by U and no record
\* of another user; no step of any operation changes the token, owner or
\* expiry of a stored record.
C27_SessionIsolation == [][LogoutIsolated /\ LogoutAllIsolated /\ NeverUpdated]_vars

\* After a logout-all of one user, whose record is gone, the record of
\* another user is still stored.
C27_Witness ==
    \E t \in revokedAll :
        /\ RecordsOf(t) = {}
        /\ \E x \in refreshTokens : x.userId # t.userId /\ x.token \in issued

====
